---- MODULE Spec2Model ----
(***************************************************************************)
(* Dinic maximum-flow solver (networkit/cpp/flow/Dinic.cpp) and the        *)
(* bounded top-k SortedList exercised by SortedListGTest.cpp.              *)
(*                                                                         *)
(* Capacities are integers (the claims speak of integer capacities), so    *)
(* Aux::NumericTools::equal(flow, 0.0) is plain equality.                  *)
(***************************************************************************)
EXTENDS Integers, Sequences, FiniteSets, TLC

(***************************************************************************)
(* Bounds of the model                                                     *)
(***************************************************************************)
\* number of nodes of the input graph (node ids 0 .. NumNodes-1)
NumNodes == 5
\* capacities of the template network are clamped to 0 .. MaxCap
MaxCap == 3
\* input graphs are the template network with at most MaxRemoved edges deleted
MaxRemoved == 1
\* run() is called at most MaxRuns times on one instance
MaxRuns == 2
\* the residual build is run by a team of NumThreads threads
NumThreads == 2

\* SortedList: elements are 1 .. MaxElement, values 1 .. MaxValue, and at most
\* MaxInserts entries are inserted between two clear()
MaxElement == 2
MaxValue == 3
MaxInserts == 4

\* level of a node the breadth-first search has not reached (Dinic.cpp:42)
Unreached == -1

Nodes == 0 .. (NumNodes - 1)

\* `none`: no node
none == NumNodes

Min(a, b) == IF a <= b THEN a ELSE b

(***************************************************************************)
(* Input graphs.  An input graph is a function from its edges <<u, v>> to  *)
(* their weights.                                                          *)
(***************************************************************************)
\* source 0, inner nodes 1 2 3, target 4; 1 -> 2 and 2 -> 1 are opposite edges
Template ==
    (<<0, 4>> :> 1) @@ (<<0, 1>> :> 2) @@ (<<1, 4>> :> 1) @@ (<<0, 2>> :> 1) @@
    (<<2, 4>> :> 3) @@ (<<1, 2>> :> 1) @@ (<<0, 3>> :> 2) @@ (<<3, 4>> :> 1) @@
    (<<3, 2>> :> 1) @@ (<<2, 1>> :> 1)

\* Scenario A of the specification (diamond), with t = 4
ScenarioA ==
    (<<0, 1>> :> 3) @@ (<<0, 2>> :> 2) @@ (<<1, 2>> :> 1) @@ (<<1, 4>> :> 2) @@
    (<<2, 4>> :> 3)

\* Scenario B: no edge at all
ScenarioB == [e \in {} |-> 0]

\* Scenario C: the single edge s -> t of capacity 7
ScenarioC == (<<0, 4>> :> 7)

Remove(w, D) == [e \in (DOMAIN w) \ D |-> w[e]]

Clamp(w, c) == [e \in DOMAIN w |-> Min(w[e], c)]

Graphs ==
    { Clamp(Remove(Template, D), c) :
        D \in {X \in SUBSET (DOMAIN Template) : Cardinality(X) <= MaxRemoved},
        c \in 0 .. MaxCap }
    \cup {ScenarioA, ScenarioB, ScenarioC}

\* the nodes offered as source and as target
Sources == {0}

Targets == {0, 4}

\* the input graph before a constructor has been given one
NoGraph == [directed |-> FALSE, weighted |-> FALSE, w |-> ScenarioB]

(***************************************************************************)
(* Graph / GraphBuilder collaborator: adjacency arrays.  out[u] is the     *)
(* sequence of (node, weight) entries of u; a lookup takes the first entry *)
(* that names the node.                                                    *)
(***************************************************************************)
EmptyAdjacency == [u \in Nodes |-> <<>>]

\* the elements of a finite set of integers in ascending order
RECURSIVE Ascending(_)
Ascending(S) ==
    IF S = {} THEN <<>>
    ELSE LET m == CHOOSE x \in S : \A y \in S : x <= y
         IN <<m>> \o Ascending(S \ {m})

\* graph->forInNeighborsOf(u, ...): the in-neighbours of u, in order
InNeighbors(G, u) == Ascending({v \in Nodes : <<v, u>> \in DOMAIN G})

addHalfEdge(out, a, b, w) ==
    [out EXCEPT ![a] = Append(@, [node |-> b, weight |-> w])]

\* position of the first entry of out[u] that names v; 0 when there is none
indexInOutEdgeArray(out, u, v) ==
    IF \E i \in 1 .. Len(out[u]) : out[u][i].node = v
    THEN CHOOSE i \in 1 .. Len(out[u]) :
            /\ out[u][i].node = v
            /\ \A j \in 1 .. (i - 1) : out[u][j].node # v
    ELSE 0

hasEdge(out, u, v) == indexInOutEdgeArray(out, u, v) # 0

weight(out, u, v) ==
    LET i == indexInOutEdgeArray(out, u, v)
    IN IF i = 0 THEN 0 ELSE out[u][i].weight

addEdge(out, u, v, w) == addHalfEdge(out, u, v, w)

setWeight(out, u, v, w) ==
    LET i == indexInOutEdgeArray(out, u, v)
    IN IF i = 0 THEN addEdge(out, u, v, w)
       ELSE [out EXCEPT ![u][i].weight = w]

\* residualGraph.neighborRange(u): the nodes of the entries of u, in order
neighborRange(out, u) == [i \in 1 .. Len(out[u]) |-> out[u][i].node]

(***************************************************************************)
(* State                                                                   *)
(***************************************************************************)
VARIABLES
    pc,             \* where the caller / run() stands
    graph,          \* the input graph the instance refers to
    source, target, \* members of Dinic
    parents,        \* member: one predecessor deque per node
    residualGraph,  \* member: the residual graph
    maxFlow,        \* member: the accumulator
    hasRun,         \* member of Algorithm
    level,          \* canReachTargetInLevelGraph: the level array of the last call
    path, u,        \* computeBlockingPath: the path buffer and the current node
    totalFlow,      \* computeBlockingPath: the flow of the phase
    outcome,        \* what the last call of the public interface did
    phases,         \* number of computeBlockingPath calls of the current run()
    runs,           \* number of run() calls
    initialResidual,\* the residual graph as initializeResidualGraph left it
    flowOfRun,      \* the accumulator as each finished run() left it
    taskPos,        \* residual build: half edges each node task has inserted
    writing,        \* residual build: the node tasks that are inside an insert
    list,           \* SortedList: the entries, position 0 first
    inserted        \* SortedList: the entries inserted since construction / clear()

listVars == <<list, inserted>>

\* the state of the node-parallel loop of initializeResidualGraph
buildVars == <<taskPos, writing>>

vars == <<pc, graph, source, target, parents, residualGraph, maxFlow, hasRun,
          level, path, u, totalFlow, outcome, phases, runs, initialResidual,
          flowOfRun, taskPos, writing, list, inserted>>

\* the members of the instance
instance == <<graph, source, target, parents, residualGraph, maxFlow, hasRun>>

Outcome(op, err, value) == [op |-> op, err |-> err, value |-> value]

Init ==
    /\ pc = "Unconstructed"
    /\ graph = NoGraph
    /\ source = none
    /\ target = none
    /\ parents = <<>>
    /\ residualGraph = EmptyAdjacency
    /\ maxFlow = 0
    /\ hasRun = FALSE
    /\ level = [n \in Nodes |-> Unreached]
    /\ path = <<>>
    /\ u = none
    /\ totalFlow = 0
    /\ outcome = Outcome("none", "none", 0)
    /\ phases = 0
    /\ runs = 0
    /\ initialResidual = EmptyAdjacency
    /\ flowOfRun = <<>>
    /\ taskPos = [n \in Nodes |-> 0]
    /\ writing = [n \in Nodes |-> FALSE]
    /\ list = <<>>
    /\ inserted = <<>>

(***************************************************************************)
(* Dinic::Dinic                                                            *)
(***************************************************************************)
ConstructFails(err) ==
    /\ pc' = "ConstructFailed"
    /\ outcome' = Outcome("construct", err, 0)
    /\ UNCHANGED <<graph, source, target, parents>>

\* a constructor that sizes the predecessor storage before it validates
ConstructResizeFirst(w, directed, weighted, s, t) ==
    /\ parents' = [n \in Nodes |-> <<>>]
    /\ IF ~directed \/ ~weighted \/ s = t
       THEN /\ pc' = "ConstructFailed"
            /\ outcome' = Outcome("construct", "configuration", 0)
            /\ UNCHANGED <<graph, source, target>>
       ELSE /\ pc' = "NotRun"
            /\ graph' = [directed |-> directed, weighted |-> weighted, w |-> w]
            /\ source' = s
            /\ target' = t
            /\ outcome' = Outcome("construct", "none", 0)

Construct(w, directed, weighted, s, t) ==
    IF ~directed
    THEN ConstructFails("Dinic algorithm requires directed graph!")
    ELSE IF ~weighted
    THEN ConstructFails("Dinic algorithm requires weighted graph!")
    ELSE IF s = t
    THEN ConstructFails("Dinic algorithm requires source and target node to be different!")
    ELSE /\ pc' = "NotRun"
         /\ graph' = [directed |-> directed, weighted |-> weighted, w |-> w]
         /\ source' = s
         /\ target' = t
         /\ parents' = [n \in Nodes |-> <<>>]
         /\ outcome' = Outcome("construct", "none", 0)

(***************************************************************************)
(* Dinic::initializeResidualGraph                                          *)
(***************************************************************************)
\* the body of the node-parallel loop for node n: both half edges per in-neighbour
RECURSIVE addInNeighbors(_, _, _, _)
addInNeighbors(out, G, n, vs) ==
    IF vs = <<>> THEN out
    ELSE LET v == Head(vs)
             forward == addHalfEdge(out, v, n, G[<<v, n>>])
             both == addHalfEdge(forward, n, v, 0)
         IN addInNeighbors(both, G, n, Tail(vs))

nodeTask(out, G, n) == addInNeighbors(out, G, n, InNeighbors(G, n))

\* builder.parallelForNodes: the node tasks take effect in some order.  The task
\* of a node without in-neighbours inserts nothing, so an order lists the others.
TaskOrders(G) ==
    LET active == {n \in Nodes : InNeighbors(G, n) # <<>>}
        first == Ascending(active)
    IN {[i \in 1 .. Len(first) |-> p[first[i]]] : p \in Permutations(active)}

RECURSIVE runTasks(_, _, _)
runTasks(out, G, order) ==
    IF order = <<>> THEN out
    ELSE runTasks(nodeTask(out, G, Head(order)), G, Tail(order))

\* the graph builder.completeGraph() returns when the tasks ran in this order
initializeResidualGraph(G, order) == runTasks(EmptyAdjacency, G, order)

(***************************************************************************)
(* Dinic::canReachTargetInLevelGraph                                       *)
(***************************************************************************)
\* "We only consider connections with positive remaining capacity"
hasCapacityOrZero(out, parent, child) == weight(out, parent, child) >= 0

hasCapacity(out, parent, child) == weight(out, parent, child) > 0

\* a for loop that records only the predecessor that discovers a child
RECURSIVE visitChildrenSingleParent(_, _, _, _)
visitChildrenSingleParent(out, parent, kids, st) ==
    IF kids = <<>> THEN st
    ELSE LET child == Head(kids)
             next ==
                 IF weight(out, parent, child) > 0 /\ st.level[child] = Unreached
                 THEN [level |-> [st.level EXCEPT ![child] = st.level[parent] + 1],
                       parents |-> [st.parents EXCEPT ![child] = Append(@, parent)],
                       queue |-> Append(st.queue, child)]
                 ELSE st
         IN visitChildrenSingleParent(out, parent, Tail(kids), next)

\* the for loop over the children of parent; st = [level, parents, queue]
RECURSIVE visitChildren(_, _, _, _)
visitChildren(out, parent, kids, st) ==
    IF kids = <<>> THEN st
    ELSE LET child == Head(kids)
             next ==
                 IF hasCapacity(out, parent, child)
                 THEN IF st.level[child] = Unreached
                      THEN [level |-> [st.level EXCEPT ![child] = st.level[parent] + 1],
                            parents |-> [st.parents EXCEPT ![child] = Append(@, parent)],
                            queue |-> Append(st.queue, child)]
                      ELSE IF st.level[child] = st.level[parent] + 1
                      THEN [st EXCEPT !.parents[child] = Append(@, parent)]
                      ELSE st
                 ELSE st
         IN visitChildren(out, parent, Tail(kids), next)

\* the do-while loop over the queue
RECURSIVE bfsLoop(_, _)
bfsLoop(out, st) ==
    LET parent == Head(st.queue)
        next == visitChildren(out, parent, neighborRange(out, parent),
                              [st EXCEPT !.queue = Tail(@)])
    IN IF next.queue = <<>> THEN next ELSE bfsLoop(out, next)

\* level array and predecessor deques when the loop is left
levelGraph(out, s) ==
    bfsLoop(out, [level |-> [n \in Nodes |-> IF n = s THEN 0 ELSE Unreached],
                  parents |-> [n \in Nodes |-> <<>>],
                  queue |-> <<s>>])

(***************************************************************************)
(* Dinic::computeBlockingPath                                              *)
(***************************************************************************)
\* path[1] is target; the parent of path[i] is path[i + 1]
pathCapacities(out, p) == {weight(out, p[i + 1], p[i]) : i \in 1 .. (Len(p) - 1)}

bottleNeckMax(out, p) ==
    CHOOSE b \in pathCapacities(out, p) : \A c \in pathCapacities(out, p) : c <= b

bottleNeckOnPath(out, p) ==
    CHOOSE b \in pathCapacities(out, p) : \A c \in pathCapacities(out, p) : b <= c

\* an update loop that lowers the forward capacities and leaves the reverse ones
RECURSIVE updatePathForwardOnly(_, _, _, _, _)
updatePathForwardOnly(out, par, p, i, b) ==
    IF i + 1 > Len(p) THEN [out |-> out, parents |-> par]
    ELSE LET parent == p[i + 1]
             child == p[i]
             fwd == setWeight(out, parent, child, weight(out, parent, child) - b)
             par1 == IF weight(fwd, parent, child) = 0 /\ par[child] # <<>>
                     THEN [par EXCEPT ![child] = Tail(@)]
                     ELSE par
         IN updatePathForwardOnly(fwd, par1, p, i + 1, b)

\* an update loop that pops a predecessor whether or not its edge is used up
RECURSIVE updatePathAlwaysPop(_, _, _, _, _)
updatePathAlwaysPop(out, par, p, i, b) ==
    IF i + 1 > Len(p) THEN [out |-> out, parents |-> par]
    ELSE LET parent == p[i + 1]
             child == p[i]
             fwd == setWeight(out, parent, child, weight(out, parent, child) - b)
             rev == IF hasEdge(fwd, child, parent)
                    THEN setWeight(fwd, child, parent, weight(fwd, child, parent) + b)
                    ELSE addEdge(fwd, child, parent, b)
             par1 == IF par[child] # <<>>
                     THEN [par EXCEPT ![child] = Tail(@)]
                     ELSE par
         IN updatePathAlwaysPop(rev, par1, p, i + 1, b)

\* the second for loop: capacities, reverse capacities and the predecessor deques
RECURSIVE updatePath(_, _, _, _, _)
updatePath(out, par, p, i, b) ==
    IF i + 1 > Len(p) THEN [out |-> out, parents |-> par]
    ELSE LET parent == p[i + 1]
             child == p[i]
             currentCapacity == weight(out, parent, child)
             fwd == setWeight(out, parent, child, currentCapacity - b)
             rev == IF hasEdge(fwd, child, parent)
                    THEN setWeight(fwd, child, parent, weight(fwd, child, parent) + b)
                    ELSE addEdge(fwd, child, parent, b)
             par1 == IF weight(rev, parent, child) = 0 /\ par[child] # <<>>
                     THEN [par EXCEPT ![child] = Tail(@)]
                     ELSE par
         IN updatePath(rev, par1, p, i + 1, b)

(***************************************************************************)
(* Dinic::run, step by step                                                *)
(***************************************************************************)
\* run() is entered: initializeResidualGraph(); maxFlow = 0.0
RunBegin ==
    /\ pc \in {"NotRun", "Finished"}
    /\ runs < MaxRuns
    /\ \E order \in TaskOrders(graph.w) :
        LET built == initializeResidualGraph(graph.w, order)
        IN /\ residualGraph' = built
           /\ initialResidual' = built
    /\ maxFlow' = 0
    /\ pc' = "bfs"
    /\ runs' = runs + 1
    /\ phases' = 0
    /\ outcome' = Outcome("run", "none", 0)
    /\ UNCHANGED <<graph, source, target, parents, hasRun, level, path, u, totalFlow,
                   flowOfRun>>
    /\ UNCHANGED buildVars
    /\ UNCHANGED listVars

\* the while condition of run(): one call of canReachTargetInLevelGraph; when it
\* is true computeBlockingPath is entered, when it is false run() returns
CanReachTargetInLevelGraph ==
    /\ pc = "bfs"
    /\ LET r == levelGraph(residualGraph, source)
       IN /\ level' = r.level
          /\ parents' = r.parents
          /\ IF r.level[target] > Unreached
             THEN /\ pc' = "walk"
                  /\ totalFlow' = 0
                  /\ path' = <<target>>
                  /\ u' = target
                  /\ phases' = phases + 1
                  /\ UNCHANGED <<hasRun, flowOfRun>>
             ELSE /\ pc' = "Finished"
                  /\ hasRun' = TRUE
                  /\ flowOfRun' = Append(flowOfRun, maxFlow)
                  /\ UNCHANGED <<totalFlow, path, u, phases>>
    /\ UNCHANGED <<graph, source, target, residualGraph, maxFlow, outcome, runs,
                   initialResidual>>
    /\ UNCHANGED buildVars
    /\ UNCHANGED listVars

\* the node the walk continues from after an augmentation of a path ending in v
restartAtTarget(v) == target

continueFrom(v) == v

\* totalFlow += bottleNeckOnPath
phaseFlowDropped(total, b) == total

phaseFlow(total, b) == total + b

\* maxFlow += flow
accumulateNegated(m, flow) == m - flow

accumulate(m, flow) == m + flow

\* one iteration of the while (true) loop of computeBlockingPath; leaving the
\* loop returns totalFlow to run(), which accumulates it or stops
WalkStep ==
    /\ pc = "walk"
    /\ LET advance == parents[u] # <<>>
           popped == SubSeq(path, 1, Len(path) - 1)
           path1 == IF advance THEN Append(path, Head(parents[u])) ELSE popped
       IN IF path1 = <<>>
          THEN \* break; return totalFlow
               /\ IF totalFlow # 0
                  THEN /\ maxFlow' = accumulate(maxFlow, totalFlow)
                       /\ pc' = "bfs"
                       /\ UNCHANGED <<hasRun, flowOfRun>>
                  ELSE /\ pc' = "Finished"
                       /\ hasRun' = TRUE
                       /\ flowOfRun' = Append(flowOfRun, maxFlow)
                       /\ UNCHANGED maxFlow
               /\ path' = <<>>
               /\ u' = none
               /\ totalFlow' = 0
               /\ UNCHANGED <<residualGraph, parents>>
          ELSE LET v == path1[Len(path1)]
               IN IF v = source
                  THEN LET b == bottleNeckOnPath(residualGraph, path1)
                           r == updatePath(residualGraph, parents, path1, 1, b)
                       IN /\ residualGraph' = r.out
                          /\ parents' = r.parents
                          /\ totalFlow' = phaseFlow(totalFlow, b)
                          /\ path' = <<target>>
                          /\ u' = continueFrom(v)
                          /\ UNCHANGED <<pc, maxFlow, hasRun, flowOfRun>>
                  ELSE /\ path' = path1
                       /\ u' = v
                       /\ UNCHANGED <<pc, maxFlow, hasRun, residualGraph, parents,
                                      totalFlow, flowOfRun>>
    /\ UNCHANGED <<graph, source, target, level, outcome, phases, runs,
                   initialResidual>>
    /\ UNCHANGED buildVars
    /\ UNCHANGED listVars

(***************************************************************************)
(* Dinic::getMaxFlow                                                       *)
(***************************************************************************)
\* getMaxFlow without assureFinished
getMaxFlowUnchecked == Outcome("getMaxFlow", "none", maxFlow)

getMaxFlow ==
    IF ~hasRun
    THEN Outcome("getMaxFlow", "not run", 0)
    ELSE Outcome("getMaxFlow", "none", maxFlow)

GetMaxFlow ==
    /\ pc \in {"NotRun", "Finished"}
    /\ outcome' = getMaxFlow
    /\ UNCHANGED <<pc, graph, source, target, parents, residualGraph, maxFlow,
                   hasRun, level, path, u, totalFlow, phases, runs, initialResidual,
                   flowOfRun>>
    /\ UNCHANGED buildVars
    /\ UNCHANGED listVars

(***************************************************************************)
(* Specification of the solver                                             *)
(***************************************************************************)
Constructor ==
    /\ pc = "Unconstructed"
    /\ \E w \in Graphs, directed \in BOOLEAN, weighted \in BOOLEAN,
          s \in Sources, t \in Targets :
            Construct(w, directed, weighted, s, t)
    /\ UNCHANGED <<residualGraph, maxFlow, hasRun, level, path, u, totalFlow,
                   phases, runs, initialResidual, flowOfRun>>
    /\ UNCHANGED buildVars
    /\ UNCHANGED listVars

\* the steps run() takes by itself once it has been entered
RunStep == CanReachTargetInLevelGraph \/ WalkStep

Next == Constructor \/ RunBegin \/ CanReachTargetInLevelGraph \/ WalkStep \/ GetMaxFlow

Spec == Init /\ [][Next]_vars

\* ENABLED <<RunStep>>_vars as a state predicate: run() is under way
RunEnabled == pc \in {"bfs", "walk"}

\* run() executes synchronously: once entered it keeps taking steps.  This is
\* WF_vars(RunStep) with ENABLED <<RunStep>>_vars written as RunEnabled.
FairSpec == Spec /\ ([]<>(~RunEnabled) \/ []<><<RunStep>>_vars)

(***************************************************************************)
(* Aux::SortedList as SortedListGTest.cpp uses it: SortedList list(3, 10)  *)
(***************************************************************************)
\* the capacity every test constructs the list with
ListCapacity == 3

Entry(e, v) == [element |-> e, value |-> v]

\* insert(element, value) that overwrites the entry of an element already present
insertReplacing(l, e, v) ==
    LET others == SelectSeq(l, LAMBDA x : x.element # e)
        k == Cardinality({i \in 1 .. Len(others) : others[i].value >= v})
        placed == SubSeq(others, 1, k) \o <<Entry(e, v)>> \o SubSeq(others, k + 1, Len(others))
    IN IF Len(placed) > ListCapacity THEN SubSeq(placed, 1, ListCapacity) ELSE placed

\* insert(element, value): the entry takes its place by value, and an entry
\* beyond the capacity falls off the end
insert(l, e, v) ==
    LET k == Cardinality({i \in 1 .. Len(l) : l[i].value >= v})
        placed == SubSeq(l, 1, k) \o <<Entry(e, v)>> \o SubSeq(l, k + 1, Len(l))
    IN IF Len(placed) > ListCapacity THEN SubSeq(placed, 1, ListCapacity) ELSE placed

ListInsert(e, v) ==
    /\ Len(inserted) < MaxInserts
    /\ list' = insert(list, e, v)
    /\ inserted' = Append(inserted, Entry(e, v))
    /\ UNCHANGED <<pc, graph, source, target, parents, residualGraph, maxFlow,
                   hasRun, level, path, u, totalFlow, outcome, phases, runs,
                   initialResidual, flowOfRun>>
    /\ UNCHANGED buildVars

Insert == \E e \in 1 .. MaxElement, v \in 1 .. MaxValue : ListInsert(e, v)

\* clear()
Clear ==
    /\ inserted # <<>>
    /\ list' = <<>>
    /\ inserted' = <<>>
    /\ UNCHANGED <<pc, graph, source, target, parents, residualGraph, maxFlow,
                   hasRun, level, path, u, totalFlow, outcome, phases, runs,
                   initialResidual, flowOfRun>>
    /\ UNCHANGED buildVars

ListNext == Insert \/ Clear

SpecList == Init /\ [][ListNext]_vars

(***************************************************************************)
(* Dinic::initializeResidualGraph, insert by insert.  The node tasks of    *)
(* builder.parallelForNodes are run by NumThreads threads; a task calls    *)
(* addHalfEdge once per half edge, and an addHalfEdge(a, b, w) appends to  *)
(* the adjacency array of a.  This specification records which array each  *)
(* task is appending to; what the arrays hold when run() goes on is        *)
(* initializeResidualGraph(G, order) above.                                *)
(***************************************************************************)
\* the calls of addHalfEdge the task of node n makes for the in-neighbours vs
RECURSIVE halfEdgesOf(_, _, _)
halfEdgesOf(G, n, vs) ==
    IF vs = <<>> THEN <<>>
    ELSE LET v == Head(vs)
         IN << [array |-> v, node |-> n, weight |-> G[<<v, n>>]],
               [array |-> n, node |-> v, weight |-> 0] >>
            \o halfEdgesOf(G, n, Tail(vs))

TaskWrites(G, n) == halfEdgesOf(G, n, InNeighbors(G, n))

TaskDone(n) == taskPos[n] = Len(TaskWrites(graph.w, n)) /\ ~writing[n]

\* the tasks a thread has taken up and not finished
ActiveTasks == {n \in Nodes : (taskPos[n] > 0 \/ writing[n]) /\ ~TaskDone(n)}

\* the adjacency array the task of node n is appending to
ArrayWritten(n) == TaskWrites(graph.w, n)[taskPos[n] + 1].array

\* run() is entered and the parallel loop starts
BuildBegin ==
    /\ pc = "NotRun"
    /\ pc' = "build"
    /\ taskPos' = [n \in Nodes |-> 0]
    /\ writing' = [n \in Nodes |-> FALSE]
    /\ UNCHANGED <<graph, source, target, parents, residualGraph, maxFlow, hasRun,
                   level, path, u, totalFlow, outcome, phases, runs,
                   initialResidual, flowOfRun>>
    /\ UNCHANGED listVars

\* the task of node n enters its next addHalfEdge
AddHalfEdgeBegin(n) ==
    /\ pc = "build"
    /\ ~writing[n]
    /\ taskPos[n] < Len(TaskWrites(graph.w, n))
    /\ n \in ActiveTasks \/ Cardinality(ActiveTasks) < NumThreads
    /\ writing' = [writing EXCEPT ![n] = TRUE]
    /\ UNCHANGED <<pc, graph, source, target, parents, residualGraph, maxFlow,
                   hasRun, level, path, u, totalFlow, outcome, phases, runs,
                   initialResidual, flowOfRun, taskPos>>
    /\ UNCHANGED listVars

\* the task of node n returns from that addHalfEdge
AddHalfEdgeEnd(n) ==
    /\ pc = "build"
    /\ writing[n]
    /\ writing' = [writing EXCEPT ![n] = FALSE]
    /\ taskPos' = [taskPos EXCEPT ![n] = @ + 1]
    /\ UNCHANGED <<pc, graph, source, target, parents, residualGraph, maxFlow,
                   hasRun, level, path, u, totalFlow, outcome, phases, runs,
                   initialResidual, flowOfRun>>
    /\ UNCHANGED listVars

InsertBegin == \E n \in Nodes : AddHalfEdgeBegin(n)

InsertEnd == \E n \in Nodes : AddHalfEdgeEnd(n)

\* every task has finished: the loop is left (builder.completeGraph() follows)
BuildEnd ==
    /\ pc = "build"
    /\ \A n \in Nodes : TaskDone(n)
    /\ pc' = "built"
    /\ UNCHANGED <<graph, source, target, parents, residualGraph, maxFlow, hasRun,
                   level, path, u, totalFlow, outcome, phases, runs,
                   initialResidual, flowOfRun>>
    /\ UNCHANGED buildVars
    /\ UNCHANGED listVars

BuildNext == Constructor \/ BuildBegin \/ InsertBegin \/ InsertEnd \/ BuildEnd

SpecBuild == Init /\ [][BuildNext]_vars

(***************************************************************************)
(* Reference notions the claims are stated with                            *)
(***************************************************************************)
RECURSIVE SumOver(_, _)
SumOver(f, S) ==
    IF S = {} THEN 0
    ELSE LET x == CHOOSE y \in S : TRUE
         IN f[x] + SumOver(f, S \ {x})

\* capacity of the cut (S, Nodes \ S) of the input graph w
CutCapacity(w, S) == SumOver(w, {e \in DOMAIN w : e[1] \in S /\ e[2] \notin S})

\* the maximum flow value of w by the max-flow min-cut theorem: the least
\* capacity of a cut that separates s from t
ReferenceMaxFlow(w, s, t) ==
    LET cuts == {CutCapacity(w, S \cup {s}) : S \in SUBSET (Nodes \ {s, t})}
    IN CHOOSE c \in cuts : \A d \in cuts : c <= d

\* the nodes reachable from the nodes of R over edges of w of positive weight
RECURSIVE ReachableFrom(_, _)
ReachableFrom(w, R) ==
    LET more == {e[2] : e \in {d \in DOMAIN w : d[1] \in R /\ w[d] > 0}}
    IN IF more \subseteq R THEN R ELSE ReachableFrom(w, R \cup more)

TargetReachable == target \in ReachableFrom(graph.w, {source})

\* the input graph holds some edge together with its opposite edge
HasOppositeEdges(w) == \E e \in DOMAIN w : <<e[2], e[1]>> \in DOMAIN w

\* flow on the original edge e: original capacity minus residual capacity
FlowOn(e) == graph.w[e] - weight(residualGraph, e[1], e[2])

Inflow(n) ==
    LET E == {e \in DOMAIN graph.w : e[2] = n}
    IN SumOver([e \in E |-> FlowOn(e)], E)

Outflow(n) ==
    LET E == {e \in DOMAIN graph.w : e[1] = n}
    IN SumOver([e \in E |-> FlowOn(e)], E)

ConfigurationErrors ==
    {"Dinic algorithm requires directed graph!",
     "Dinic algorithm requires weighted graph!",
     "Dinic algorithm requires source and target node to be different!"}

(***************************************************************************)
(* Claims                                                                  *)
(***************************************************************************)

C1_WithoutOppositeEdges ==
    (pc = "Finished" /\ ~HasOppositeEdges(graph.w))
        => maxFlow = ReferenceMaxFlow(graph.w, source, target)

\* C2: the number of phases of a run() never exceeds the number of nodes.
C2_PhasesAtMostNodeCount == phases <= NumNodes

\* C3: every residual capacity is >= 0, and the flow on every original edge is
\* at most its original capacity.
C3_CapacityFeasible ==
    /\ \A n \in Nodes : \A i \in 1 .. Len(residualGraph[n]) :
            residualGraph[n][i].weight >= 0
    /\ pc \in {"bfs", "walk", "Finished"} =>
            \A e \in DOMAIN graph.w : FlowOn(e) <= graph.w[e]

C3_Witness ==
    /\ pc = "walk"
    /\ totalFlow > 0
    /\ \E e \in DOMAIN graph.w : graph.w[e] > 1 /\ FlowOn(e) = graph.w[e]
    /\ \E e \in DOMAIN graph.w : FlowOn(e) > 0 /\ FlowOn(e) < graph.w[e]

C4_WithoutOppositeEdges ==
    (pc = "Finished" /\ ~HasOppositeEdges(graph.w)) =>
        \A n \in Nodes \ {source, target} : Inflow(n) = Outflow(n)

\* C5: getMaxFlow() in state NotRun fails with the "not run" error and leaves the
\* instance unchanged; in state Finished it succeeds and returns the accumulator.
C5_GetMaxFlowNeedsRun ==
    [][(outcome'.op = "getMaxFlow" /\ pc' = pc) =>
          /\ pc = "NotRun" =>
                (outcome'.err = "not run" /\ UNCHANGED instance)
          /\ pc = "Finished" =>
                (outcome'.err = "none" /\ outcome'.value = maxFlow
                 /\ UNCHANGED instance)]_vars

C5_Witness ==
    /\ pc = "NotRun"
    /\ outcome.op = "getMaxFlow"
    /\ outcome.err = "not run"
    /\ ~hasRun

\* C6: a construction succeeds only for a directed, weighted graph with source
\* # target; a failed one raises a configuration error, allocates no
\* predecessor storage and builds no residual graph.
C6_FailedConstructionLeavesNothing ==
    [][/\ (pc = "Unconstructed" /\ pc' = "NotRun") =>
            (graph'.directed /\ graph'.weighted /\ source' # target')
       /\ pc' = "ConstructFailed" =>
            /\ outcome'.err \in ConfigurationErrors
            /\ parents' = <<>>
            /\ residualGraph' = EmptyAdjacency
            /\ graph' = NoGraph]_vars

C6_Witness ==
    /\ pc = "ConstructFailed"
    /\ outcome.err = "Dinic algorithm requires source and target node to be different!"

\* C7: run() terminates: once entered, it reaches Finished.
C7_RunTerminates == RunEnabled ~> (pc = "Finished")

C7_Witness == pc = "Finished" /\ phases >= 3 /\ maxFlow >= 3

\* C8: within a run(), once the accumulator is initialised, no step decreases it.
C8_MaxFlowMonotone == [][(pc \in {"bfs", "walk"}) => (maxFlow <= maxFlow')]_vars

C8_Witness == pc = "bfs" /\ phases >= 2 /\ maxFlow >= 2

\* C9: if target is not reachable from source over positive-capacity edges of the
\* input, run() finishes after zero phases with the residual capacities as
\* initialised, and getMaxFlow() returns 0.
C9_UnreachableTargetZeroPhases ==
    (pc = "Finished" /\ ~TargetReachable) =>
        /\ phases = 0
        /\ residualGraph = initialResidual
        /\ maxFlow = 0
        /\ outcome.op = "getMaxFlow" => (outcome.err = "none" /\ outcome.value = 0)

C9_Witness ==
    /\ pc = "Finished"
    /\ ~TargetReachable
    /\ <<source, target>> \in DOMAIN graph.w
    /\ outcome.op = "getMaxFlow"

\* number of positions of the sequence q that hold x
Count(q, x) == Cardinality({i \in 1 .. Len(q) : q[i] = x})

\* C10: after any sequence of insert calls (no clear() in between) the list
\* holds min(capacity, number of inserts) entries, each of them inserted, in
\* non-increasing order of value from position 0, and every inserted entry that
\* is not in the list has a value no higher than any entry of the list; an
\* element inserted twice has two entries.
C10_ListHoldsTopK ==
    /\ Len(list) = Min(ListCapacity, Len(inserted))
    /\ \A i \in 1 .. (Len(list) - 1) : list[i].value >= list[i + 1].value
    /\ \A i \in 1 .. Len(list) : Count(list, list[i]) <= Count(inserted, list[i])
    /\ \A j \in 1 .. Len(inserted) :
          Count(inserted, inserted[j]) > Count(list, inserted[j]) =>
              \A i \in 1 .. Len(list) : list[i].value >= inserted[j].value

C10_Witness ==
    /\ Len(inserted) > ListCapacity
    /\ Len(list) = ListCapacity
    /\ \E i, j \in 1 .. Len(list) :
          list[i].element = list[j].element /\ list[i].value > list[j].value
    /\ \E j \in 1 .. Len(inserted) :
          /\ Count(list, inserted[j]) = 0
          /\ Len(inserted) > j
          /\ inserted[Len(inserted)].value > inserted[j].value

\* the level graph of the last breadth-first search, restricted to the edges
\* that still have positive residual capacity
LevelEdge(p, c) ==
    /\ level[p] # Unreached
    /\ level[c] = level[p] + 1
    /\ hasEdge(residualGraph, p, c)
    /\ weight(residualGraph, p, c) > 0

\* the nodes reachable from the nodes of R over such edges
RECURSIVE LevelReach(_)
LevelReach(R) ==
    LET more == {c \in Nodes : \E p \in R : LevelEdge(p, c)}
    IN IF more \subseteq R THEN R ELSE LevelReach(R \cup more)

\* C11: when computeBlockingPath has returned for a phase, the level graph of
\* that phase holds no path from source to target all of whose edges still have
\* positive residual capacity (the flow pushed is a blocking flow).
C11_PhaseFlowIsBlocking ==
    (pc = "bfs" /\ phases > 0) => target \notin LevelReach({source})

\* C12: of two consecutive phases of one run() in which the search reaches
\* target, the later one assigns target a strictly greater level.
C12_TargetLevelIncreases ==
    [][(pc = "bfs" /\ phases > 0 /\ level'[target] > Unreached)
            => (level'[target] > level[target])]_vars

\* two tasks are inside an insert into the adjacency array of the same node
WriteConflict ==
    \E n \in Nodes, m \in Nodes :
        n # m /\ writing[n] /\ writing[m] /\ ArrayWritten(m) = ArrayWritten(n)

\* C13: during the node-parallel build no two tasks that run concurrently
\* insert into the adjacency array of the same node (each task writes only the
\* storage of its own node), so no interleaving has a write-write conflict.
C13_NoWriteConflict == ~WriteConflict

C14_WithoutOppositeEdges ==
    (runs > 0 /\ ~HasOppositeEdges(graph.w)) =>
        \A e \in DOMAIN graph.w :
            /\ weight(initialResidual, e[1], e[2]) = graph.w[e]
            /\ weight(initialResidual, e[2], e[1]) = 0

\* residual capacity (a, b) plus residual capacity (b, a), as looked up in out
PairCapacity(out, a, b) == weight(out, a, b) + weight(out, b, a)

\* C15: in every state of a run(), for every pair of nodes joined by a residual
\* edge the two residual capacities of the pair add up to what they added up to
\* right after the residual graph was initialised.
C15_PairCapacityConserved ==
    pc \in {"bfs", "walk", "Finished"} =>
        \A a \in Nodes, b \in Nodes :
            (hasEdge(residualGraph, a, b) \/ hasEdge(residualGraph, b, a)) =>
                PairCapacity(residualGraph, a, b) = PairCapacity(initialResidual, a, b)

\* augmentations have moved capacity from an edge to its reverse, on a pair that
\* started with no capacity in the reverse direction
C15_Witness ==
    /\ pc = "walk"
    /\ totalFlow > 1
    /\ \E a \in Nodes, b \in Nodes :
          /\ weight(initialResidual, b, a) = 0
          /\ weight(residualGraph, b, a) > 1
          /\ weight(residualGraph, a, b) > 0

\* a residual edge a -> b with strictly positive capacity
PositiveEdge(out, a, b) == hasEdge(out, a, b) /\ weight(out, a, b) > 0

\* shortest-path lengths from the nodes at distance d (frontier) outwards, layer
\* by layer; lev maps the nodes seen so far to their distance
RECURSIVE extendLayers(_, _, _, _)
extendLayers(out, lev, frontier, d) ==
    LET layer == {c \in Nodes : lev[c] = Unreached
                                /\ \E p \in frontier : PositiveEdge(out, p, c)}
    IN IF layer = {} THEN lev
       ELSE extendLayers(out, [n \in Nodes |-> IF n \in layer THEN d + 1 ELSE lev[n]],
                         layer, d + 1)

\* length of a shortest path from s to every node over positive-capacity
\* residual edges, Unreached where there is none
ShortestLevels(out, s) ==
    extendLayers(out, [n \in Nodes |-> IF n = s THEN 0 ELSE Unreached], {s}, 0)

\* the nodes held by a predecessor deque
Members(q) == {q[i] : i \in 1 .. Len(q)}

\* C16: after each call of canReachTargetInLevelGraph, level[v] is the length of
\* a shortest path from source to v over positive-capacity residual edges (-1 if
\* none), parents[v] holds exactly the nodes p with level[p] + 1 = level[v] and
\* residual capacity (p, v) > 0, and the call returns true exactly when target
\* is reachable from source over such edges.
C16_LevelGraphIsShortestPaths ==
    [][pc = "bfs" =>
          LET d == ShortestLevels(residualGraph, source)
          IN /\ level' = d
             /\ \A v \in Nodes :
                   Members(parents'[v]) =
                       {p \in Nodes : /\ d[p] # Unreached
                                      /\ d[p] + 1 = d[v]
                                      /\ PositiveEdge(residualGraph, p, v)}
             /\ (pc' = "walk") <=> (d[target] # Unreached)]_vars

\* the search of a later phase has just returned true; a node has two
\* predecessors and another node is unreached
C16_Witness ==
    /\ pc = "walk"
    /\ phases >= 2
    /\ path = <<target>>
    /\ u = target
    /\ totalFlow = 0
    /\ \E v \in Nodes : Cardinality(Members(parents[v])) >= 2
    /\ \E v \in Nodes : level[v] = Unreached

\* C17: with integer capacities every phase whose search reaches target pushes
\* strictly positive flow, so run() never stops on a zero phase flow, and it is
\* Finished only when target is unreachable from source over positive-capacity
\* residual edges.
C17_FinishedOnlyWhenSaturated ==
    [][/\ (pc = "walk" /\ pc' # "walk") => (totalFlow > 0 /\ pc' = "bfs")
       /\ pc' = "Finished" =>
            ShortestLevels(residualGraph', source')[target'] = Unreached]_vars

\* a run() of several phases has finished with capacity left on an edge into
\* target
C17_Witness ==
    /\ pc = "Finished"
    /\ phases >= 2
    /\ maxFlow >= 2
    /\ \E p \in Nodes : PositiveEdge(residualGraph, p, target)

\* the path an augmenting step of the walk works on: the buffer and the
\* predecessor taken from the front of the deque of u
AugmentedPath == Append(path, Head(parents[u]))

\* C18: whenever an augmentation pops an entry from the front of parents[child],
\* the popped entry is the parent of child on the augmented path, the residual
\* capacity (parent, child) has just become zero, and no entry whose edge to
\* child still has positive residual capacity is removed.
C18_PopsOnlySaturatedPathParent ==
    [][(pc = "walk" /\ pc' = "walk") =>
          \A n \in Nodes :
              parents'[n] # parents[n] =>
                  /\ parents[n] # <<>>
                  /\ parents'[n] = Tail(parents[n])
                  /\ weight(residualGraph, Head(parents[n]), n) > 0
                  /\ weight(residualGraph', Head(parents[n]), n) = 0
                  /\ \E i \in 1 .. Len(path) :
                        /\ path[i] = n
                        /\ AugmentedPath[i + 1] = Head(parents[n])]_vars

\* an augmentation has emptied the deque of one node of the path and has left
\* the predecessor of another, whose edge keeps capacity, in place
C18_Witness ==
    /\ pc = "walk"
    /\ totalFlow > 0
    /\ \E n \in Nodes : level[n] > 0 /\ parents[n] = <<>>
    /\ \E n \in Nodes :
          /\ level[n] > 0
          /\ parents[n] # <<>>
          /\ weight(residualGraph, Head(parents[n]), n) > 0
          /\ weight(residualGraph, n, Head(parents[n])) >= totalFlow

C19_WithoutOppositeEdges ==
    ~HasOppositeEdges(graph.w) =>
        \A i \in 1 .. Len(flowOfRun), j \in 1 .. Len(flowOfRun) :
            flowOfRun[i] = flowOfRun[j]

====
